---- MODULE Spec2Model ----
(***************************************************************************)
(* TicketBookingForm.jsx: the zod schema of the booking form, the          *)
(* react-hook-form state that feeds it (register / Controller / useForm    *)
(* defaultValues) and handleSubmit(onSubmit).                              *)
(*                                                                         *)
(* JavaScript values are tagged records, so that a number, the string a    *)
(* <select> yields, null and undefined stay distinct.  Strings are tuples  *)
(* of one-character strings, so that the regular expressions of the        *)
(* schema are evaluated on their characters.                               *)
(***************************************************************************)
EXTENDS Integers, Sequences, FiniteSets, TLC

VARIABLES
    zodMajor,      \* major version of the zod build the schema runs on (3 or 4)
    formValues,    \* react-hook-form _formValues: the BookingInput of the next attempt
    errors,        \* formState.errors: field -> message (the ErrorMap)
    isSubmitted,   \* formState.isSubmitted
    onSubmitData,  \* argument of the onSubmit call made by the last step, NoCall if none
    pc             \* "form" for the component; "input"/"done" for one schema validation

vars == <<zodMajor, formValues, errors, isSubmitted, onSubmitData, pc>>

-----------------------------------------------------------------------------
(* JavaScript values *)

Undefined == [t |-> "undefined"]

Null == [t |-> "null"]

Str(chars) == [t |-> "string", s |-> chars]

\* the number num/den, den > 0
Num(num, den) == [t |-> "number", num |-> num, den |-> den]

\* a Date object; valid = FALSE is an Invalid Date (its time value is NaN)
DateAt(ms) == [t |-> "date", valid |-> TRUE, ms |-> ms]

InvalidDate == [t |-> "date", valid |-> FALSE, ms |-> 0]

NoCall == [t |-> "nocall"]

NoErrors == [f \in {} |-> ""]

Digits == {"0", "1", "2", "3", "4", "5", "6", "7", "8", "9"}

Letters ==
    {"a", "b", "c", "d", "e", "f", "g", "h", "i", "j", "k", "l", "m",
     "n", "o", "p", "q", "r", "s", "t", "u", "v", "w", "x", "y", "z",
     "A", "B", "C", "D", "E", "F", "G", "H", "I", "J", "K", "L", "M",
     "N", "O", "P", "Q", "R", "S", "T", "U", "V", "W", "X", "Y", "Z"}

Alnum == Letters \cup Digits

RECURSIVE Text(_)
\* the characters of a string value as one string (for messages that quote it)
Text(chars) == IF chars = <<>> THEN "" ELSE Head(chars) \o Text(Tail(chars))

\* String(k) of a dropdown option value 1..10
DecimalString(k) ==
    LET d == <<"0", "1", "2", "3", "4", "5", "6", "7", "8", "9">>
    IN  IF k < 10 THEN <<d[k + 1]>> ELSE <<d[(k \div 10) + 1], d[(k % 10) + 1]>>

-----------------------------------------------------------------------------
(* The fields and the option lists of the component *)

Fields ==
    {"name", "email", "phone", "tickets", "date", "time", "payment", "seat",
     "specialRequests"}

Card == <<"C", "a", "r", "d">>

UPI == <<"U", "P", "I">>

NetBanking == <<"N", "e", "t", " ", "B", "a", "n", "k", "i", "n", "g">>

Wallet == <<"W", "a", "l", "l", "e", "t">>

Window == <<"W", "i", "n", "d", "o", "w">>

Aisle == <<"A", "i", "s", "l", "e">>

Center == <<"C", "e", "n", "t", "e", "r">>

PaymentOptions == <<Card, UPI, NetBanking, Wallet>>

SeatOptions == <<Window, Aisle, Center>>

Range(seq) == {seq[i] : i \in 1..Len(seq)}

\* [...Array(10).keys()].map(i => i + 1)
TicketOptionCount == 10

TicketOptions == 1..TicketOptionCount

-----------------------------------------------------------------------------
(* zod: issue messages *)

\* zod 3 getParsedType
ParsedType(v) == v.t

\* zod 4 (locale en) parsedType: typeof, and an object by its constructor
ReceivedName(v) == IF v.t = "date" THEN "Date" ELSE v.t

\* the default message of an invalid_type issue
InvalidTypeMessage(zm, expected, v) ==
    IF zm = 3
    THEN IF v.t = "undefined"
         THEN "Required"
         ELSE "Expected " \o expected \o ", received " \o ParsedType(v)
    ELSE "Invalid input: expected " \o expected \o ", received " \o ReceivedName(v)

RECURSIVE JoinValues(_)
\* zod 3 util.joinValues: 'a' | 'b' | 'c'
JoinValues(options) ==
    IF options = <<>> THEN ""
    ELSE "'" \o Text(Head(options)) \o "'"
         \o (IF Tail(options) = <<>> THEN "" ELSE " | " \o JoinValues(Tail(options)))

-----------------------------------------------------------------------------
(* zod: the checks of the schema, each yielding the issues of its path *)

\* z.string()
StringTypeIssues(zm, v) ==
    IF v.t = "string" THEN <<>> ELSE <<InvalidTypeMessage(zm, "string", v)>>

MinLength_Off(chars, n) == TRUE

\* .min(n): chars.length >= n
MinLength(chars, n) == Len(chars) >= n

\* name: z.string().min(1, "Name is required")
NameIssues(zm, v) ==
    IF StringTypeIssues(zm, v) # <<>> THEN StringTypeIssues(zm, v)
    ELSE IF MinLength(v.s, 1) THEN <<>> ELSE <<"Name is required">>

LocalChars == Alnum \cup {"_", "'", "+", "-", "."}

LocalLastChars == Alnum \cup {"_", "+", "-"}

HasDoubleDot(chars) ==
    \E i \in 1..(Len(chars) - 1) : chars[i] = "." /\ chars[i + 1] = "."

\* [A-Z0-9_'+\-\.]*[A-Z0-9_+-]
LocalPartOk(l) ==
    /\ Len(l) >= 1
    /\ \A i \in 1..Len(l) : l[i] \in LocalChars
    /\ l[Len(l)] \in LocalLastChars

\* [A-Z0-9][A-Z0-9\-]*  (the "." that follows it is consumed by the caller)
DomainLabelOk(l) ==
    /\ Len(l) >= 1
    /\ l[1] \in Alnum
    /\ \A i \in 1..Len(l) : l[i] \in Alnum \cup {"-"}

\* [A-Z]{2,}
TopLevelOk(l) == Len(l) >= 2 /\ \A i \in 1..Len(l) : l[i] \in Letters

\* ([A-Z0-9][A-Z0-9\-]*\.)+[A-Z]{2,}
DomainOk(d) ==
    LET dots == {i \in 1..Len(d) : d[i] = "."}
        before(p) == CHOOSE q \in {0} \cup {r \in dots : r < p} :
                         \A r \in dots : r < p => r <= q
        last == CHOOSE q \in dots : \A r \in dots : r <= q
    IN  /\ dots # {}
        /\ \A p \in dots : DomainLabelOk(SubSeq(d, before(p) + 1, p - 1))
        /\ TopLevelOk(SubSeq(d, last + 1, Len(d)))

\* zod's emailRegex, flag i:
\* /^(?!\.)(?!.*\.\.)([A-Z0-9_'+\-\.]*)[A-Z0-9_+-]@([A-Z0-9][A-Z0-9\-]*\.)+[A-Z]{2,}$/i
EmailRegexTest(chars) ==
    LET ats == {i \in 1..Len(chars) : chars[i] = "@"}
        at == CHOOSE i \in ats : TRUE
    IN  /\ Cardinality(ats) = 1
        /\ chars[1] # "."
        /\ ~HasDoubleDot(chars)
        /\ LocalPartOk(SubSeq(chars, 1, at - 1))
        /\ DomainOk(SubSeq(chars, at + 1, Len(chars)))

\* email: z.string().email("Invalid email address")
EmailIssues(zm, v) ==
    IF StringTypeIssues(zm, v) # <<>> THEN StringTypeIssues(zm, v)
    ELSE IF EmailRegexTest(v.s) THEN <<>> ELSE <<"Invalid email address">>

\* /^\d{10}$/.test(chars)
PhoneRegexTest(chars) ==
    Len(chars) = 10 /\ \A i \in 1..Len(chars) : chars[i] \in Digits

\* phone: z.string().regex(/^\d{10}$/, "Phone number must be 10 digits")
PhoneIssues(zm, v) ==
    IF StringTypeIssues(zm, v) # <<>> THEN StringTypeIssues(zm, v)
    ELSE IF PhoneRegexTest(v.s) THEN <<>> ELSE <<"Phone number must be 10 digits">>

\* z.number(): typeof "number"
NumberTypeIssues(zm, v) ==
    IF v.t = "number" THEN <<>> ELSE <<InvalidTypeMessage(zm, "number", v)>>

NumberMin_Exclusive(v, n) == v.num > n * v.den

\* .min(n): value >= n, on the number num/den
NumberMin(v, n) == v.num >= n * v.den

\* tickets: z.number().min(1, "At least one ticket is required")
TicketsIssues(zm, v) ==
    IF NumberTypeIssues(zm, v) # <<>> THEN NumberTypeIssues(zm, v)
    ELSE IF NumberMin(v, 1) THEN <<>> ELSE <<"At least one ticket is required">>

\* z.date(): a Date object whose time value is not NaN; a failure aborts the
\* parse of the path, so the refinement that follows is not run
DateTypeIssues(zm, v) ==
    IF v.t # "date" THEN <<InvalidTypeMessage(zm, "date", v)>>
    ELSE IF ~v.valid
         THEN <<IF zm = 3 THEN "Invalid date"
                ELSE "Invalid input: expected date, received Date">>
         ELSE <<>>

\* (val) => val instanceof Date && !isNaN(val)
IsValidDate(v) == v.t = "date" /\ v.valid

\* z.date().refine(IsValidDate, message)
RefinedDateIssues(zm, v, message) ==
    IF DateTypeIssues(zm, v) # <<>> THEN DateTypeIssues(zm, v)
    ELSE IF IsValidDate(v) THEN <<>> ELSE <<message>>

\* date: z.date().refine(..., "Booking date is required")
DateIssues(zm, v) == RefinedDateIssues(zm, v, "Booking date is required")

\* time: z.date().refine(..., "Show/travel time is required")
TimeIssues(zm, v) == RefinedDateIssues(zm, v, "Show/travel time is required")

\* z.enum(options, message) with a string as second argument.
\* zod 3 reads errorMap / invalid_type_error / required_error / message off
\* that argument; a string has none of them, so the default messages are used.
\* zod 4 takes a string argument as the error message of every issue.
EnumIssues(zm, options, message, v) ==
    IF v.t = "string" /\ v.s \in Range(options) THEN <<>>
    ELSE IF zm # 3 THEN <<message>>
    ELSE IF v.t # "string"
         THEN <<InvalidTypeMessage(zm, JoinValues(options), v)>>
         ELSE <<"Invalid enum value. Expected " \o JoinValues(options)
                  \o ", received '" \o Text(v.s) \o "'">>

\* payment: z.enum(["Card", "UPI", "Net Banking", "Wallet"], "Please select a payment option")
PaymentIssues(zm, v) ==
    EnumIssues(zm, PaymentOptions, "Please select a payment option", v)

\* seat: z.enum(["Window", "Aisle", "Center"], "Please select a seat preference")
SeatIssues(zm, v) ==
    EnumIssues(zm, SeatOptions, "Please select a seat preference", v)

\* specialRequests: z.string().optional(): undefined passes, else z.string()
SpecialRequestsIssues(zm, v) ==
    IF v.t = "undefined" THEN <<>> ELSE StringTypeIssues(zm, v)

SpecialRequestsOutput_Default(v) == IF v.t = "undefined" THEN Str(<<>>) ELSE v

\* the parsed value of specialRequests: .optional() returns undefined as it is
SpecialRequestsOutput(v) == v

-----------------------------------------------------------------------------
(* zod: the object schema, and zodResolver *)

\* the issues of one key of the schema
FieldIssues(zm, f, v) ==
    CASE f = "name" -> NameIssues(zm, v)
      [] f = "email" -> EmailIssues(zm, v)
      [] f = "phone" -> PhoneIssues(zm, v)
      [] f = "tickets" -> TicketsIssues(zm, v)
      [] f = "date" -> DateIssues(zm, v)
      [] f = "time" -> TimeIssues(zm, v)
      [] f = "payment" -> PaymentIssues(zm, v)
      [] f = "seat" -> SeatIssues(zm, v)
      [] f = "specialRequests" -> SpecialRequestsIssues(zm, v)

\* schema = z.object({...}): every key is parsed, the issues of all keys are kept
SchemaIssues(zm, input) == [f \in Fields |-> FieldIssues(zm, f, input[f])]

\* the data of a successful parse: each key's parsed value
SchemaData(input) ==
    [f \in Fields |->
        IF f = "specialRequests" THEN SpecialRequestsOutput(input[f]) ELSE input[f]]

\* zodResolver(schema): errors keeps the first issue of each path
ResolverErrors(zm, input) ==
    LET issues == SchemaIssues(zm, input)
    IN  [f \in {g \in Fields : issues[g] # <<>>} |-> Head(issues[f])]

\* zodResolver(schema): values is the parsed data when there is no issue
ResolverValues(zm, input) ==
    IF ResolverErrors(zm, input) = NoErrors THEN SchemaData(input) ELSE NoCall

-----------------------------------------------------------------------------
(* The component: useForm state, the registered inputs, handleSubmit *)

\* the values a user types into the text inputs (bounded samples)
Asha == <<"A", "s", "h", "a">>

GoodEmail == <<"a", "@", "b", ".", "c", "o">>

GoodPhone == <<"9", "8", "7", "6", "5", "4", "3", "2", "1", "0">>

ShortPhone == <<"1", "2", "3", "4", "5">>

VegMeal == <<"V", "e", "g">>

TypedNames == {<<>>, Asha}

TypedEmails == {<<>>, GoodEmail}

TypedPhones == {<<>>, GoodPhone, ShortPhone}

TypedRequests == {<<>>, VegMeal}

\* dayjs().toDate() at mount, as a time value
MountTime == 1

\* what the pickers' onChange writes: value ? value.toDate() : null
\* (a date, the Invalid Date of a half-typed entry, or null when cleared)
PickerValues == {DateAt(MountTime), InvalidDate, Null}

\* _formValues once every input is registered: defaultValues where given, else
\* the value read off the DOM element ("" for a text input, null for a radio
\* group with nothing checked, the first option of a <select>)
MountValues ==
    [f \in Fields |->
        CASE f = "tickets" -> Num(1, 1)
          [] f = "date" -> DateAt(MountTime)
          [] f = "time" -> DateAt(MountTime)
          [] f = "payment" -> Null
          [] f = "seat" -> Str(SeatOptions[1])
          [] OTHER -> Str(<<>>)]

\* the value of the option chosen in <select {...register("tickets")}>: register
\* has no valueAsNumber, so the element's value, a string, is stored
SelectValue(k) == Str(DecimalString(k))

\* errors after the re-validation of one field (reValidateMode "onChange"):
\* the resolver runs on the current values and only that field's entry of
\* formState.errors is set or removed.  The keys of the schema are parsed
\* independently of each other, so only the issues of that key are evaluated.
FieldRevalidated(errs, zm, field, value) ==
    LET issues == FieldIssues(zm, field, value)
    IN  [f \in IF issues = <<>> THEN (DOMAIN errs) \ {field} ELSE (DOMAIN errs) \cup {field} |->
            IF f = field THEN Head(issues) ELSE errs[f]]

\* the change handler of a registered or controlled field
OnChange(field, value) ==
    /\ pc = "form"
    /\ formValues[field] # value
    /\ formValues' = [formValues EXCEPT ![field] = value]
    /\ errors' = IF isSubmitted
                 THEN FieldRevalidated(errors, zodMajor, field, value)
                 ELSE errors
    /\ onSubmitData' = NoCall
    /\ UNCHANGED <<zodMajor, isSubmitted, pc>>

ChangeName == \E s \in TypedNames : OnChange("name", Str(s))

ChangeEmail == \E s \in TypedEmails : OnChange("email", Str(s))

ChangePhone == \E s \in TypedPhones : OnChange("phone", Str(s))

SelectTickets == \E k \in TicketOptions : OnChange("tickets", SelectValue(k))

PickDate == \E d \in PickerValues : OnChange("date", d)

PickTime == \E d \in PickerValues : OnChange("time", d)

SelectPayment == \E i \in 1..Len(PaymentOptions) : OnChange("payment", Str(PaymentOptions[i]))

SelectSeat == \E i \in 1..Len(SeatOptions) : OnChange("seat", Str(SeatOptions[i]))

ChangeSpecialRequests == \E s \in TypedRequests : OnChange("specialRequests", Str(s))

OnValidCalled_Always(errs) == TRUE

\* handleSubmit: onValid is called when the resolver reported no error
OnValidCalled(errs) == errs = NoErrors

\* <form onSubmit={handleSubmit(onSubmit)}>: the resolver runs on the current
\* values, formState.errors is replaced by its errors, and onSubmit receives
\* the parsed data when there is none
Submit ==
    LET fresh == ResolverErrors(zodMajor, formValues)
    IN  /\ pc = "form"
        /\ UNCHANGED <<zodMajor, formValues, pc>>
        /\ isSubmitted' = TRUE
        /\ errors' = fresh
        /\ onSubmitData' = IF OnValidCalled(fresh) THEN SchemaData(formValues) ELSE NoCall

Init ==
    /\ zodMajor \in {3, 4}
    /\ formValues = MountValues
    /\ errors = NoErrors
    /\ isSubmitted = FALSE
    /\ onSubmitData = NoCall
    /\ pc = "form"

Next ==
    \/ ChangeName
    \/ ChangeEmail
    \/ ChangePhone
    \/ SelectTickets
    \/ PickDate
    \/ PickTime
    \/ SelectPayment
    \/ SelectSeat
    \/ ChangeSpecialRequests
    \/ Submit

Spec == Init /\ [][Next]_vars

-----------------------------------------------------------------------------
(* One validation of a candidate record: schema parse through zodResolver *)

BadEmail == <<"n", "o", "t", "-", "a", "n", "-", "e", "m", "a", "i", "l">>

ShortTldEmail == <<"a", "@", "b", ".", "c">>

LongPhone == <<"9", "8", "7", "6", "5", "4", "3", "2", "1", "0", "1">>

Crypto == <<"C", "r", "y", "p", "t", "o">>

Middle == <<"M", "i", "d", "d", "l", "e">>

NameInputs == {Str(<<>>), Str(Asha)}

EmailInputs == {Str(GoodEmail), Str(BadEmail), Str(ShortTldEmail)}

PhoneInputs == {Str(GoodPhone), Str(ShortPhone), Str(LongPhone)}

TicketsInputs == {Num(1, 1), Num(3, 1), Num(0, 1), Num(-2, 1), Num(3, 2), Num(1, 2), Str(<<"3">>)}

DateInputs == {DateAt(MountTime), InvalidDate, Null}

PaymentInputs == {Str(Card), Str(NetBanking), Str(Crypto), Null}

SeatInputs == {Str(Window), Str(Center), Str(Middle)}

SpecialRequestsInputs == {Undefined, Str(VegMeal)}

BookingInputs ==
    {[f \in Fields |->
        CASE f = "name" -> n
          [] f = "email" -> e
          [] f = "phone" -> p
          [] f = "tickets" -> k
          [] f = "date" -> d
          [] f = "time" -> t
          [] f = "payment" -> pay
          [] f = "seat" -> seat
          [] f = "specialRequests" -> sr] :
        n \in NameInputs, e \in EmailInputs, p \in PhoneInputs, k \in TicketsInputs,
        d \in DateInputs, t \in DateInputs, pay \in PaymentInputs, seat \in SeatInputs,
        sr \in SpecialRequestsInputs}

InitValidator ==
    /\ zodMajor \in {3, 4}
    /\ formValues \in BookingInputs
    /\ errors = NoErrors
    /\ isSubmitted = FALSE
    /\ onSubmitData = NoCall
    /\ pc = "input"

\* resolver(values): errors is the ErrorMap, onSubmitData the BookingRecord
Validate ==
    /\ pc = "input"
    /\ errors' = ResolverErrors(zodMajor, formValues)
    /\ onSubmitData' = ResolverValues(zodMajor, formValues)
    /\ pc' = "done"
    /\ UNCHANGED <<zodMajor, formValues, isSubmitted>>

NextValidator == Validate

SpecValidator == InitValidator /\ [][NextValidator]_vars

-----------------------------------------------------------------------------
(* The data model's field rules and messages, as the specification lists them *)

IsInteger(v) == v.t = "number" /\ v.num % v.den = 0

\* the rule of a field in the rule table
RuleHolds(f, v) ==
    CASE f = "name" -> v.t = "string" /\ Len(v.s) > 0
      [] f = "email" -> v.t = "string" /\ EmailRegexTest(v.s)
      [] f = "phone" -> v.t = "string" /\ v.s \in [1..10 -> Digits]
      [] f = "tickets" -> IsInteger(v) /\ v.num \div v.den >= 1
      [] f = "date" -> v.t = "date" /\ v.valid
      [] f = "time" -> v.t = "date" /\ v.valid
      [] f = "payment" -> v.t = "string" /\ v.s \in {Card, UPI, NetBanking, Wallet}
      [] f = "seat" -> v.t = "string" /\ v.s \in {Window, Aisle, Center}
      [] f = "specialRequests" -> TRUE

\* the invariant of a field of a BookingRecord (tickets: >= 1)
RecordInvariant(f, v) ==
    IF f = "tickets" THEN v.t = "number" /\ v.num >= v.den ELSE RuleHolds(f, v)

ViolatedFields(input) == {f \in Fields : ~RuleHolds(f, input[f])}

TableMessage(f) ==
    CASE f = "name" -> "Name is required"
      [] f = "email" -> "Invalid email address"
      [] f = "phone" -> "Phone number must be 10 digits"
      [] f = "tickets" -> "At least one ticket is required"
      [] f = "date" -> "Booking date is required"
      [] f = "time" -> "Show/travel time is required"
      [] f = "payment" -> "Please select a payment option"
      [] f = "seat" -> "Please select a seat preference"

HasError(f, message) == f \in DOMAIN errors /\ errors[f] = message

-----------------------------------------------------------------------------
(* Claims *)

\* C1: across field edits and submit attempts, onSubmit is only ever called
\* with a record that satisfies every invariant of the data model, and never
\* on an attempt whose input violates a field rule.
C1_OnSubmitOnlyValidRecord ==
    (pc = "form" /\ onSubmitData # NoCall) =>
        /\ \A f \in Fields : RecordInvariant(f, onSubmitData[f])
        /\ ViolatedFields(formValues) = {}

C1_Witness == pc = "form" /\ isSubmitted /\ onSubmitData # NoCall

\* C2: an input that satisfies every field rule validates: the record equals
\* the input and the ErrorMap is empty.
C2_ValidInputSucceeds ==
    (pc = "done" /\ ViolatedFields(formValues) = {}) =>
        errors = NoErrors /\ onSubmitData = formValues

C2_Witness ==
    /\ pc = "done"
    /\ ViolatedFields(formValues) = {}
    /\ formValues["tickets"] = Num(3, 1)
    /\ onSubmitData = formValues

\* C3 (as claimed): an input that violates exactly one field rule yields an
\* ErrorMap with exactly one entry, for that field, with the table's message.
C3_SingleViolationTableMessage ==
    (pc = "done" /\ Cardinality(ViolatedFields(formValues)) = 1) =>
        errors = [f \in ViolatedFields(formValues) |-> TableMessage(f)]

\* C4 (as claimed): the keys of the ErrorMap are exactly the fields whose rule
\* is violated.
C4_ErrorKeysAreViolatedFields ==
    pc = "done" => DOMAIN errors = ViolatedFields(formValues)

\* C5 (as claimed): a payment outside the enum (null included) is reported as
\* "Please select a payment option", a seat outside the enum as "Please select
\* a seat preference".
C5_EnumMessages ==
    pc = "done" =>
        /\ ~RuleHolds("payment", formValues["payment"])
              => HasError("payment", "Please select a payment option")
        /\ ~RuleHolds("seat", formValues["seat"])
              => HasError("seat", "Please select a seat preference")

\* C6 (as claimed): a null or invalid date is reported as "Booking date is
\* required", a null or invalid time as "Show/travel time is required".
C6_DateTimeMessages ==
    pc = "done" =>
        /\ ~RuleHolds("date", formValues["date"])
              => HasError("date", "Booking date is required")
        /\ ~RuleHolds("time", formValues["time"])
              => HasError("time", "Show/travel time is required")

C7_Case ==
    /\ pc = "done"
    /\ ViolatedFields(formValues) = {}
    /\ formValues["specialRequests"] = Undefined

C8_NonIntegerTicketsRejected ==
    (pc = "done" /\ formValues["tickets"].t = "number"
       /\ ~RuleHolds("tickets", formValues["tickets"])) =>
        HasError("tickets", "At least one ticket is required")

\* C9: the outcome of a submit attempt depends only on the field values
\* current at that attempt: the ErrorMap displayed after it has exactly the
\* fields that are invalid now, whatever earlier attempts left behind, and an
\* attempt with every field valid shows no error and hands the values to
\* onSubmit, while any other attempt does not call onSubmit.
C9_SubmitOutcomeFromCurrentValues ==
    [][Submit =>
        /\ errors' = ResolverErrors(zodMajor, formValues)
        /\ DOMAIN errors' = ViolatedFields(formValues)
        /\ ViolatedFields(formValues) = {} => onSubmitData' = formValues
        /\ ViolatedFields(formValues) # {} => onSubmitData' = NoCall]_vars

C9_Witness ==
    /\ pc = "form"
    /\ isSubmitted
    /\ errors = NoErrors
    /\ onSubmitData = formValues
    /\ formValues["specialRequests"] = Str(VegMeal)

\* C10 (as claimed): in every state of the form the tickets value handed to
\* validation is an integer in 1..10, and the tickets field never has an error.
C10_FormTicketsIsInteger ==
    pc = "form" =>
        /\ IsInteger(formValues["tickets"])
        /\ formValues["tickets"].num \div formValues["tickets"].den \in TicketOptions
        /\ "tickets" \notin DOMAIN errors

====
